---- MODULE Spec2Model ----
(***************************************************************************)
(* A model of the minefield of conqp/mines (src/mines.py): class Cell,     *)
(* class Minefield with its deferred mine placement (_initialize), the     *)
(* reveal of one cell (_visit_cell), the cascade over a work list          *)
(* (_visit_neighbors) and the two public operations visit and toggle_flag. *)
(*                                                                         *)
(* A position is a pair <<x, y>>.  A cell is a record                      *)
(* [mine, flagged, visited]; mine is Optional[bool] in the source and is   *)
(* one of the strings "None", "True", "False" here.                        *)
(*                                                                         *)
(* toggle_flag runs in one step.  visit runs in one step up to the while   *)
(* loop of _visit_neighbors; every iteration of that loop is one further   *)
(* step, so that a loop that never ends is a behaviour of the model and    *)
(* not an undefined value.  A call ends in a state with pc = "returned",   *)
(* where the caller sees what the call returned or raised; from there the  *)
(* caller goes on to its next call (pc = "idle").                          *)
(***************************************************************************)
EXTENDS Integers, Sequences, FiniteSets

\* Bounds of the model: the number of cells of the largest field that is
\* constructed, and the longest work list the cascade is followed to.
MaxCells == 4
MaxUnvisited == 10

\* Bound of the arguments the constructor is tried with: sides from -1 to
\* MaxSide (and the two sides around maxsize), mines from -1 to one more
\* than MaxSide * MaxSide.
MaxSide == 3

\* len(NUM_TO_STR): ten digits and twenty-six lower-case letters.
maxsize == 36

VARIABLES
    width,      \* len(self._grid[0])
    height,     \* len(self._grid)
    mines,      \* self.mines
    grid,       \* self._grid: position -> Cell
    result,     \* self._result: "None", "LOST" or "WON"
    pc,         \* "idle", "visit_neighbors" (inside the loop) or "returned"
    unvisited,  \* the local list of _visit_neighbors, a sequence of positions
    call,       \* the call that runs or has returned: [op, position]
    before,     \* self._grid and self._result when that call was entered
    ret         \* what it returned or raised: [exc, line]

vars == <<width, height, mines, grid, result, pc, unvisited, call, before, ret>>

----------------------------------------------------------------------------
\* Pure helpers

\* Vector2D.neighbors: delta_y outer, delta_x inner, the position itself skipped.
neighbors(position) ==
    LET x == position[1]
        y == position[2]
    IN  << <<x - 1, y - 1>>, <<x, y - 1>>, <<x + 1, y - 1>>,
           <<x - 1, y>>,                   <<x + 1, y>>,
           <<x - 1, y + 1>>, <<x, y + 1>>, <<x + 1, y + 1>> >>

\* InitAccepts without the limit of the sides.
InitAccepts_NoMaxsize(w, h, m) ==
    /\ ~(w < 1 \/ h < 1)
    /\ ~(m < 0)
    /\ ~(m >= w * h)

\* InitAccepts with the last comparison off by one.
InitAccepts_OffByOne(w, h, m) ==
    /\ ~(w < 1 \/ h < 1)
    /\ ~(w > maxsize \/ h > maxsize)
    /\ ~(m < 0)
    /\ ~(m > w * h)

\* Minefield.__init__: the configurations that raise no ValueError.
InitAccepts(w, h, m) ==
    /\ ~(w < 1 \/ h < 1)
    /\ ~(w > maxsize \/ h > maxsize)
    /\ ~(m < 0)
    /\ ~(m >= w * h)

\* Minefield.__init__: the line that raises ValueError, when one does.
InitRaisesAt(w, h, m) ==
    IF w < 1 \/ h < 1 THEN 127
    ELSE IF w > maxsize \/ h > maxsize THEN 130
    ELSE IF m < 0 THEN 133
    ELSE 136

\* The grid built by Minefield.__init__: Cell(Vector2D(x, y)) with the defaults.
NewGrid(w, h) ==
    [p \in (0 .. w - 1) \X (0 .. h - 1) |->
        [mine |-> "None", flagged |-> FALSE, visited |-> FALSE]]

\* Minefield.__contains__ for a Vector2D.
Contains(position) ==
    /\ 0 <= position[1] /\ position[1] < width
    /\ 0 <= position[2] /\ position[2] < height

\* Minefield._uninitialized
_uninitialized(g) == \A p \in DOMAIN g : g[p].mine = "None"

\* Minefield._uninitialized_cells
_uninitialized_cells(g) == {p \in DOMAIN g : g[p].mine = "None"}

\* Minefield._neighbors: the neighbors that lie on the field, in order.
_neighbors(g, position) ==
    SelectSeq(neighbors(position), LAMBDA p : Contains(p))

\* Minefield._unvisited_neighbors
_unvisited_neighbors(g, position) ==
    SelectSeq(_neighbors(g, position), LAMBDA p : ~g[p].visited)

RECURSIVE SeqCount(_, _, _)
SeqCount(s, g, field) ==
    IF s = <<>> THEN 0
    ELSE (IF field = "mine"
            THEN (IF g[Head(s)].mine = "True" THEN 1 ELSE 0)
            ELSE (IF g[Head(s)].flagged THEN 1 ELSE 0))
         + SeqCount(Tail(s), g, field)

\* Minefield._neighboring_mines
_neighboring_mines(g, position) == SeqCount(_neighbors(g, position), g, "mine")

\* Minefield._neighboring_flags
_neighboring_flags(g, position) == SeqCount(_neighbors(g, position), g, "flagged")

\* Minefield._remaining_neighboring_mines
_remaining_neighboring_mines(g, position) ==
    LET d == _neighboring_mines(g, position) - _neighboring_flags(g, position)
    IN  IF d > 0 THEN d ELSE 0

\* The first statement of _initialize: self[start].mine = False.
StartSafe(g, start) == [g EXCEPT ![start].mine = "False"]

\* SamplePopulation without the start cell taken out first.
SamplePopulation_WithStart(g, start) == _uninitialized_cells(g)

\* The population sample() draws from in _initialize.
SamplePopulation(g, start) == _uninitialized_cells(StartSafe(g, start))

\* Minefield._initialize, with S the cells drawn by sample().
_initialize(g, start, S) ==
    LET g1 == StartSafe(g, start)
        g2 == [p \in DOMAIN g |->
                 IF p \in S THEN [g1[p] EXCEPT !.mine = "True"] ELSE g1[p]]
        rest == _uninitialized_cells(g2)
    IN  [p \in DOMAIN g |->
           IF p \in rest THEN [g2[p] EXCEPT !.mine = "False"] ELSE g2[p]]

\* Cell.toggle_flag
\* Cell.toggle_flag without the test of visited.
Cell_toggle_flag_IgnoresVisited(cell) ==
    [cell EXCEPT !.flagged = ~cell.flagged]

\* Cell.toggle_flag that flags a visited cell and conceals it again.
Cell_toggle_flag_Conceals(cell) ==
    [cell EXCEPT !.flagged = ~cell.flagged, !.visited = FALSE]

Cell_toggle_flag(cell) ==
    IF cell.visited THEN cell ELSE [cell EXCEPT !.flagged = ~cell.flagged]

\* VisitCellSkips without the test of the flag.
VisitCellSkips_IgnoresFlag(cell) == cell.visited

\* The test of _visit_cell that makes it return at once.
VisitCellSkips(cell) == cell.visited \/ cell.flagged

\* AllSafeVisited with a flagged cell taken for a visited one.
AllSafeVisited_CountsFlagged(g) ==
    \A p \in DOMAIN g : g[p].mine = "True" \/ g[p].visited \/ g[p].flagged

\* The test of _visit_cell for GameOver.WON, on the grid after the reveal.
AllSafeVisited(g) == \A p \in DOMAIN g : g[p].mine = "True" \/ g[p].visited

\* _visit_cell without the branch that ends the game on a mine.
_visit_cell_LossUnmarked(g, p) ==
    IF VisitCellSkips(g[p])
    THEN [grid |-> g, end |-> "None"]
    ELSE IF g[p].mine = "True"
    THEN [grid |-> g, end |-> "LOST"]
    ELSE LET g1 == [g EXCEPT ![p].visited = TRUE]
         IN  [grid |-> g1,
              end  |-> IF AllSafeVisited(g1) THEN "WON" ELSE "None"]

_visit_cell_NoLoss(g, p) ==
    IF VisitCellSkips(g[p])
    THEN [grid |-> g, end |-> "None"]
    ELSE LET g1 == [g EXCEPT ![p].visited = TRUE]
         IN  [grid |-> g1,
              end  |-> IF AllSafeVisited(g1) THEN "WON" ELSE "None"]

\* Minefield._visit_cell: the grid and the result it ends the game with
\* ("None" when it returns normally).
_visit_cell(g, p) ==
    IF VisitCellSkips(g[p])
    THEN [grid |-> g, end |-> "None"]
    ELSE LET g1 == [g EXCEPT ![p].visited = TRUE]
         IN  [grid |-> g1,
              end  |-> IF g1[p].mine = "True" THEN "LOST"
                       ELSE IF AllSafeVisited(g1) THEN "WON"
                       ELSE "None"]

\* The condition of visit for calling _visit_neighbors.
VisitCascades(g, position) == _remaining_neighboring_mines(g, position) = 0

\* NeighborsExtend that never extends: only the neighbors of the target are
\* visited.
NeighborsExtend_Never(g, position) == FALSE

\* The condition of _visit_neighbors for extending the work list.
NeighborsExtend(g, position) == _neighboring_mines(g, position) = 0

----------------------------------------------------------------------------
\* The state machine

\* The positions a caller passes: every position of the field, and one
\* position beyond each of its four edges.
Positions ==
    DOMAIN grid \cup {<<-1, 0>>, <<width, 0>>, <<0, -1>>, <<0, height>>}

\* What a call returned or raised: the exception and the line that raised
\* it, or a plain return; Running while the call has not ended.
Returned == [exc |-> "None", line |-> 0]
Running == [exc |-> "running", line |-> 0]
Raised(e, l) == [exc |-> e, line |-> l]

\* No call runs.
NoCall == [op |-> "none", position |-> <<>>]

\* VisitRefused that refuses nothing.
VisitRefused_Never(res) == FALSE

\* VisitRefused that lets a won game go on.
VisitRefused_OnlyLost(res) == res = "LOST"

\* The test of visit that raises the stored result again.
VisitRefused(res) == res # "None"

Init ==
    /\ width \in 1 .. MaxCells
    /\ height \in 1 .. MaxCells
    /\ width * height <= MaxCells
    /\ mines \in 0 .. MaxCells
    /\ InitAccepts(width, height, mines)
    /\ grid = NewGrid(width, height)
    /\ result = "None"
    /\ pc = "idle"
    /\ unvisited = <<>>
    /\ call = NoCall
    /\ before = [grid |-> grid, result |-> result]
    /\ ret = Returned

\* A call is entered.
Enters(op, position) ==
    /\ pc = "idle"
    /\ call' = [op |-> op, position |-> position]
    /\ before' = [grid |-> grid, result |-> result]
    /\ UNCHANGED <<width, height, mines>>

\* visit ends: the local list is gone.
\* GetItemFails with the mines drawn before the start cell is looked up.
GetItemFails_AfterSample(g) ==
    IF _uninitialized(g)
    THEN LET S == CHOOSE T \in SUBSET DOMAIN g : Cardinality(T) = mines
         IN  [p \in DOMAIN g |->
                 [g[p] EXCEPT !.mine = IF p \in S THEN "True" ELSE "False"]]
    ELSE g

\* The grid that Minefield.__getitem__ leaves when it raises IndexError: the
\* lookup is the first thing visit (through _initialize on a fresh field)
\* and toggle_flag do with the position, so no cell was written.
GetItemFails(g) == g

VisitEnds(g, res, r) ==
    /\ grid' = g
    /\ result' = res
    /\ ret' = r
    /\ pc' = "returned"
    /\ unvisited' = <<>>

\* visit goes on with the loop of _visit_neighbors on the list u.
VisitLoops(g, u) ==
    IF u = <<>>
    THEN VisitEnds(g, result, Returned)
    ELSE /\ Len(u) <= MaxUnvisited
         /\ grid' = g
         /\ pc' = "visit_neighbors"
         /\ unvisited' = u
         /\ ret' = Running
         /\ UNCHANGED result

\* visit, from _visit_cell(self[position]) on, on the grid g.
VisitFrom(g, position) ==
    LET v == _visit_cell(g, position)
    IN  IF v.end # "None"
        THEN VisitEnds(v.grid, v.end, Raised(v.end, 272))
        ELSE IF VisitCascades(v.grid, position)
        THEN VisitLoops(v.grid, _unvisited_neighbors(v.grid, position))
        ELSE VisitEnds(v.grid, result, Returned)

\* Minefield.visit(position), up to the loop of _visit_neighbors.
Visit(position) ==
    /\ Enters("visit", position)
    /\ IF VisitRefused(result)
       THEN VisitEnds(grid, result, Raised(result, 309))
       ELSE IF ~Contains(position)
       THEN VisitEnds(GetItemFails(grid), result, Raised("IndexError", 163))
       ELSE IF ~_uninitialized(grid)
       THEN VisitFrom(grid, position)
       ELSE IF mines > Cardinality(SamplePopulation(grid, position))
       THEN \* sample() raises ValueError after self[start].mine = False
            VisitEnds(StartSafe(grid, position), result, Raised("ValueError", 263))
       ELSE \E S \in SUBSET SamplePopulation(grid, position) :
                /\ Cardinality(S) = mines
                /\ VisitFrom(_initialize(grid, position, S), position)

\* One iteration of the while loop of _visit_neighbors.
VisitNeighbors ==
    /\ pc = "visit_neighbors"
    /\ UNCHANGED <<width, height, mines, call, before>>
    /\ LET cell == unvisited[Len(unvisited)]
           rest == SubSeq(unvisited, 1, Len(unvisited) - 1)
           v    == _visit_cell(grid, cell)
       IN  IF v.end # "None"
           THEN VisitEnds(v.grid, v.end, Raised(v.end, 272))
           ELSE IF NeighborsExtend(v.grid, cell)
           THEN VisitLoops(v.grid, rest \o _unvisited_neighbors(v.grid, cell))
           ELSE VisitLoops(v.grid, rest)

\* Minefield.toggle_flag(position)
ToggleFlag(position) ==
    /\ Enters("toggle_flag", position)
    /\ pc' = "returned"
    /\ UNCHANGED <<result, unvisited>>
    /\ IF ~Contains(position)
       THEN /\ ret' = Raised("IndexError", 163)
            /\ grid' = GetItemFails(grid)
       ELSE /\ ret' = Returned
            /\ grid' = [grid EXCEPT ![position] = Cell_toggle_flag(grid[position])]

\* The caller has seen the outcome of the call and turns to its next call.
Return ==
    /\ pc = "returned"
    /\ pc' = "idle"
    /\ call' = NoCall
    /\ before' = [grid |-> grid, result |-> result]
    /\ ret' = Returned
    /\ UNCHANGED <<width, height, mines, grid, result, unvisited>>

Next ==
    \/ \E position \in Positions : Visit(position)
    \/ VisitNeighbors
    \/ \E position \in Positions : ToggleFlag(position)
    \/ Return

Spec == Init /\ [][Next]_vars

\* visit() runs in the caller's thread and nothing suspends it: while the
\* loop of _visit_neighbors has a cell to pop, it pops it.
SpecFair == Spec /\ WF_vars(VisitNeighbors)

\* The fields of Init and, played without flags, the field of three by
\* three cells with one mine.
ExampleField == width = 3 /\ height = 3 /\ mines = 1

InitCascade ==
    /\ \/ /\ width \in 1 .. MaxCells
          /\ height \in 1 .. MaxCells
          /\ width * height <= MaxCells
          /\ mines \in 0 .. MaxCells
       \/ ExampleField
    /\ InitAccepts(width, height, mines)
    /\ grid = NewGrid(width, height)
    /\ result = "None"
    /\ pc = "idle"
    /\ unvisited = <<>>
    /\ call = NoCall
    /\ before = [grid |-> grid, result |-> result]
    /\ ret = Returned

NextCascade ==
    \/ \E position \in Positions : Visit(position)
    \/ VisitNeighbors
    \/ \E position \in Positions :
          width * height <= MaxCells /\ ToggleFlag(position)
    \/ Return

SpecCascade == InitCascade /\ [][NextCascade]_vars

----------------------------------------------------------------------------
\* The constructor on its own: Minefield(width, height, mines) for arguments
\* that it accepts and arguments that it rejects.

Sides == (-1 .. MaxSide) \cup {maxsize, maxsize + 1}

\* The caller is about to call Minefield(width, height, mines).
InitNew ==
    /\ width \in Sides
    /\ height \in Sides
    /\ mines \in -1 .. MaxSide * MaxSide + 1
    /\ grid = <<>>
    /\ result = "None"
    /\ pc = "new"
    /\ unvisited = <<>>
    /\ call = [op |-> "new", position |-> <<>>]
    /\ before = [grid |-> <<>>, result |-> "None"]
    /\ ret = Running

\* Minefield.__init__(width, height, mines)
New ==
    /\ pc = "new"
    /\ pc' = "returned"
    /\ UNCHANGED <<width, height, mines, result, unvisited, call, before>>
    /\ IF InitAccepts(width, height, mines)
       THEN /\ grid' = NewGrid(width, height)
            /\ ret' = Returned
       ELSE /\ ret' = Raised("ValueError", InitRaisesAt(width, height, mines))
            /\ UNCHANGED grid

SpecNew == InitNew /\ [][New]_vars

----------------------------------------------------------------------------
\* Properties.  A call is active from its first step until the caller turns
\* to the next one: call and before describe it in all those states.

Cells == DOMAIN grid
Mined == {p \in Cells : grid[p].mine = "True"}
Flagged == {p \in Cells : grid[p].flagged}
Visited == {p \in Cells : grid[p].visited}
Unknown == {p \in Cells : grid[p].mine = "None"}
VisitedBefore == {p \in Cells : before.grid[p].visited}
FlaggedBefore == {p \in Cells : before.grid[p].flagged}
UnknownBefore == {p \in Cells : before.grid[p].mine = "None"}

\* The active call is visit or toggle_flag of a position on the field.
VisitOnField == call.op = "visit" /\ call.position \in Cells
ToggleOnField == call.op = "toggle_flag" /\ call.position \in Cells

\* The active call is the first visit of a fresh field, at a position on it.
FirstVisit ==
    VisitOnField /\ before.result = "None" /\ UnknownBefore = Cells

\* The active call is a visit, on a field with the mines placed and no
\* result, of a cell that was visited or flagged when the call was entered.
VisitOfSkippedCell ==
    /\ VisitOnField /\ before.result = "None" /\ UnknownBefore = {}
    /\ \/ before.grid[call.position].visited
       \/ before.grid[call.position].flagged

\* C1: placement safety.  Whatever flags were toggled before and whichever
\* cells sample() draws, during and after the first visit(c) of a position c
\* on the field the cell at c has mine = False.
C1_PlacementSafety == FirstVisit => grid[call.position].mine = "False"

\* A first visit has returned on a field with mines, with flags toggled
\* before it.
C1_Witness ==
    /\ pc = "returned" /\ FirstVisit /\ ret = Returned
    /\ mines > 0 /\ FlaggedBefore # {}

\* C2: placement is atomic, exact and one-time.  Every state has either all
\* mines unknown or none unknown and exactly self.mines cells with a mine,
\* and a call entered with the cells decided changes the mine of no cell.
C2_PlacementAtomicExactOnce ==
    /\ \/ Unknown = Cells
       \/ Unknown = {} /\ Cardinality(Mined) = mines
    /\ UnknownBefore = {} => \A p \in Cells : grid[p].mine = before.grid[p].mine

\* A visit that revealed a cell has returned on a field that had its mines,
\* more than one, placed before, with flags on it.
C2_Witness ==
    /\ pc = "returned" /\ call.op = "visit"
    /\ UnknownBefore = {} /\ mines > 1 /\ Cardinality(Mined) = mines
    /\ Visited # VisitedBefore /\ Flagged # {}

\* C3: the first move is always safe.  The first visit of a position on a
\* fresh field, after any toggle_flag calls, never sets the result LOST,
\* neither by its own reveal nor in its loop over the neighbors.
C3_FirstVisitNeverLost == FirstVisit => result # "LOST"

\* C4: cascading never reveals a mine.  A mine that a visit reveals is the
\* target of the visit, and a visit whose target is no mine, or was flagged
\* or visited when the call was entered, does not set the result LOST.
C4_CascadeRevealsNoMine ==
    (VisitOnField /\ before.result = "None") =>
        /\ \A p \in (Visited \ VisitedBefore) \cap Mined : p = call.position
        /\ ( \/ grid[call.position].mine = "False"
             \/ before.grid[call.position].flagged
             \/ before.grid[call.position].visited ) => result # "LOST"

\* C5: visiting a revealed or flagged cell is a no-op.  On a field with the
\* mines placed and no result, visit(c) of a cell that is visited or flagged
\* changes no cell and leaves the result None.
C5_VisitOfSkippedCellIsNoOp ==
    VisitOfSkippedCell => grid = before.grid /\ result = "None"

\* C6: flag / reveal mutual exclusion.  No cell is both flagged and visited:
\* toggle_flag leaves a visited cell unflagged and no visit, directly or in
\* its loop, reveals a cell that is flagged.
C6_FlagRevealExclusive ==
    \A p \in Cells : ~(grid[p].flagged /\ grid[p].visited)

\* A visit has run its loop next to a flagged cell and left it alone: a cell
\* without neighboring mines that the visit revealed has a flagged neighbor.
C6_Witness ==
    /\ pc = "returned" /\ call.op = "visit" /\ result = "None"
    /\ \E p \in Visited \ VisitedBefore : \E q \in Flagged :
           /\ _neighboring_mines(grid, p) = 0
           /\ \E i \in 1 .. 8 : neighbors(p)[i] = q

\* C7: win detection.  Once the mines are placed, the result is WON exactly
\* when every cell without a mine is visited.
C7_WonIffAllSafeVisited ==
    Unknown = {} =>
        (result = "WON" <=> \A p \in Cells : grid[p].mine = "False" => grid[p].visited)

\* A visit has returned and the only cell without a mine that is left
\* unrevealed is flagged: the game is not won.
C7_Witness ==
    /\ pc = "returned" /\ call.op = "visit" /\ Unknown = {}
    /\ result = "None" /\ mines > 0
    /\ \E q \in Flagged :
           /\ grid[q].mine = "False"
           /\ \A p \in Cells \ {q} : grid[p].mine = "False" => grid[p].visited

\* C8: loss detection.  The result is LOST exactly when a cell with a mine
\* is visited.
C8_LostIffMineVisited ==
    result = "LOST" <=> \E p \in Cells : grid[p].mine = "True" /\ grid[p].visited

\* A visit stepped onto a mine.
C8_Witness ==
    /\ pc = "returned" /\ call.op = "visit"
    /\ result = "LOST" /\ ret = Raised("LOST", 272)
    /\ \E p \in Mined : grid[p].visited

\* C9: toggle_flag after the game is over is refused.  Once the result is
\* WON or LOST, toggle_flag(c) of a position on the field raises that
\* result and changes no cell.
C9_ToggleFlagRefusedWhenOver ==
    (pc = "returned" /\ ToggleOnField /\ before.result # "None") =>
        ret.exc = before.result /\ grid = before.grid

\* C10: visit after the game is over is refused.  Once the result is WON or
\* LOST, visit(c) of any position, on the field or not, raises that result
\* at once and changes no cell and not the result.
C10_VisitRefusedWhenOver ==
    (call.op = "visit" /\ before.result # "None") =>
        /\ pc = "returned"
        /\ ret = Raised(before.result, 309)
        /\ grid = before.grid /\ result = before.result

\* A visit of a position off the field was refused on a finished field that
\* still has cells that are not visited.
C10_Witness ==
    /\ pc = "returned" /\ call.op = "visit" /\ call.position \notin Cells
    /\ before.result # "None" /\ ret = Raised(result, 309)
    /\ Visited # Cells

\* Minefield(width, height, mines) has returned or raised.
Constructed == pc = "returned" /\ call.op = "new"

\* The field the constructor returns: width * height cells, none with a mine
\* decided, none flagged, none visited, and no result.
FreshField ==
    /\ DOMAIN grid = (0 .. width - 1) \X (0 .. height - 1)
    /\ \A p \in DOMAIN grid :
          grid[p].mine = "None" /\ ~grid[p].flagged /\ ~grid[p].visited
    /\ result = "None"

BeyondMaxUnvisited == pc = "visit_neighbors" /\ ~ENABLED VisitNeighbors

\* C12: every call of visit on a field without a result terminates, whatever
\* the flags: the loop of _visit_neighbors leads to the end of the call (by
\* an empty list or by the end of the game).
C12_VisitTerminates ==
    (pc = "visit_neighbors" /\ ~BeyondMaxUnvisited)
        ~> (pc = "returned" \/ BeyondMaxUnvisited)

\* The active call is visit or toggle_flag of a position off the field, on
\* a field without a result.
CallOffField ==
    /\ call.op \in {"visit", "toggle_flag"}
    /\ call.position \notin Cells
    /\ before.result = "None"

\* C13: on a field without a result, visit and toggle_flag of a position
\* off the field raise IndexError and leave every cell and the result as
\* they were; on a fresh field no mine is placed.
C13_OffFieldNoEffect ==
    CallOffField =>
        /\ pc = "returned"
        /\ ret = Raised("IndexError", 163)
        /\ grid = before.grid
        /\ result = "None"
        /\ UnknownBefore = Cells => Unknown = Cells

\* A first visit off a fresh field with mines to place has raised.
C13_Witness ==
    /\ CallOffField /\ pc = "returned" /\ call.op = "visit"
    /\ mines > 0 /\ Unknown = Cells /\ ret.exc = "IndexError"

\* Two distinct positions that touch, diagonals included.
Adjacent(p, q) ==
    /\ p # q
    /\ p[1] - q[1] \in {-1, 0, 1}
    /\ p[2] - q[2] \in {-1, 0, 1}

\* The number of mines around p.
MineCount(p) == Cardinality({q \in Mined : Adjacent(p, q)})

\* The largest set of cells without mines around them that holds S and is
\* connected to it.
RECURSIVE ZeroRegion(_)
ZeroRegion(S) ==
    LET T == S \cup {q \in Cells : MineCount(q) = 0
                                  /\ \E p \in S : Adjacent(p, q)}
    IN  IF T = S THEN S ELSE ZeroRegion(T)

\* The region of p and the cells of the field around it.
RegionAndBorder(p) ==
    LET R == ZeroRegion({p})
    IN  R \cup {q \in Cells : \E r \in R : Adjacent(r, q)}

\* A visit, on a field without a result and without flags, of a cell that
\* was not visited and has no mine, has returned or raised.
FlagFreeVisit ==
    /\ pc = "returned" /\ VisitOnField
    /\ before.result = "None" /\ FlaggedBefore = {}
    /\ ~before.grid[call.position].visited
    /\ grid[call.position].mine = "False"

\* The cells such a visit has to reveal.
CascadeReveals ==
    IF MineCount(call.position) > 0
    THEN {call.position}
    ELSE RegionAndBorder(call.position) \ VisitedBefore

\* When the call was entered, every visited cell without mines around it
\* had all its neighbors visited.
ClosedBefore ==
    \A z \in VisitedBefore :
        MineCount(z) = 0 =>
            \A q \in Cells : Adjacent(z, q) => q \in VisitedBefore

\* The first visit, at (0, 0), of the field of three by three cells, with
\* the one mine drawn at (2, 2).
ExampleVisit ==
    /\ ExampleField /\ FirstVisit /\ pc = "returned"
    /\ call.position = <<0, 0>> /\ Mined = {<<2, 2>>}

\* C14 as claimed: on a field without a result and without flags, visit(c)
\* of an unvisited cell without a mine reveals c alone when c has mines
\* around it, and otherwise the unvisited cells of the region of c and of
\* its border.
C14_CascadeIsRegionAndBorder ==
    FlagFreeVisit => Visited \ VisitedBefore = CascadeReveals

\* C14 as amended: the same, on a field where every visited cell without
\* mines around it has all its neighbors visited; on the field of three by
\* three cells with the mine at (2, 2), the first visit at (0, 0) reveals
\* the eight other cells, leaves (2, 2) unvisited and wins.
C14_CascadeIsRegionAndBorderWhenClosed ==
    /\ (FlagFreeVisit /\ ClosedBefore) =>
           Visited \ VisitedBefore = CascadeReveals
    /\ ExampleVisit =>
           Visited = Cells \ {<<2, 2>>} /\ result = "WON"

\* The visit of the example has ended.
C14_Witness ==
    ExampleVisit /\ FlagFreeVisit /\ ClosedBefore /\ ret = Raised("WON", 272)

\* C15: reveal monotonicity.  No step of visit or toggle_flag, cascade
\* included, takes visited away from a cell that has it.
C15_VisitedStaysVisited ==
    [][\A p \in Cells : grid[p].visited => grid'[p].visited]_vars

\* A visit with a cascade has ended on a field that had visited cells.
C15_Witness ==
    /\ pc = "returned" /\ VisitOnField
    /\ VisitedBefore # {} /\ VisitedBefore \subseteq Visited
    /\ Cardinality(Visited \ VisitedBefore) > 1

\* C16: the result is permanent.  Once the result is WON it is WON for
\* ever, once it is LOST it is LOST for ever; it never goes back to None.
C16_ResultStays ==
    [][result # "None" => result' = result]_vars

\* A visit of an unvisited cell of a lost field was refused and the field
\* is still lost.
C16_Witness ==
    /\ pc = "returned" /\ VisitOnField
    /\ before.result = "LOST" /\ result = "LOST"
    /\ ~before.grid[call.position].visited
    /\ ret.exc = "LOST"

\* C17: during and after visit(c), every cell that the call revealed, c
\* apart, touches a cell that is visited, not flagged and has no mines
\* around it: the cascade starts from c only if c has no mines around it
\* and goes on through visited cells only.
C17_CascadeFromVisitedZeroCells ==
    VisitOnField =>
        \A p \in (Visited \ VisitedBefore) \ {call.position} :
            \E q \in Cells :
                /\ Adjacent(p, q)
                /\ grid[q].visited /\ ~grid[q].flagged
                /\ MineCount(q) = 0

\* The active call is a visit, on a field with the mines placed and no
\* result, of a cell with a mine that was neither visited nor flagged.
VisitOfMine ==
    /\ VisitOnField /\ before.result = "None" /\ UnknownBefore = {}
    /\ before.grid[call.position].mine = "True"
    /\ ~before.grid[call.position].visited
    /\ ~before.grid[call.position].flagged

\* C18: a loss stops the visit.  visit(c) of an unvisited, unflagged mine
\* on a field without a result marks c visited, sets the result LOST and
\* raises it without a step of the cascade; every other cell is unchanged.
C18_LossStopsVisit ==
    VisitOfMine =>
        /\ pc = "returned"
        /\ ret = Raised("LOST", 272)
        /\ result = "LOST"
        /\ grid = [before.grid EXCEPT ![call.position].visited = TRUE]

\* Such a visit has ended, of a mine without mines around it that has
\* unvisited neighbors: a target the cascade would have started from.
C18_Witness ==
    /\ VisitOfMine /\ pc = "returned" /\ result = "LOST"
    /\ MineCount(call.position) = 0
    /\ \E q \in Cells \ Visited : Adjacent(call.position, q)

\* toggle_flag of a position on a field without a result has returned.
ToggleDone ==
    pc = "returned" /\ ToggleOnField /\ before.result = "None"

\* C19: on a field without a result, toggle_flag(c) of a position on the
\* field returns; it inverts flagged of c if c is not visited and changes
\* nothing if it is; flagged of every other cell, visited and mine of every
\* cell (undecided mines included) and the result are unchanged.
C19_ToggleFlagFrame ==
    ToggleDone =>
        /\ ret = Returned
        /\ result = "None"
        /\ \A p \in Cells :
              /\ grid[p].visited = before.grid[p].visited
              /\ grid[p].mine = before.grid[p].mine
              /\ grid[p].flagged =
                    IF p = call.position /\ ~before.grid[p].visited
                    THEN ~before.grid[p].flagged
                    ELSE before.grid[p].flagged

\* toggle_flag has flagged a cell of a fresh field with mines to place.
C19_Witness ==
    /\ ToggleDone /\ ret = Returned
    /\ mines > 0 /\ Unknown = Cells
    /\ grid[call.position].flagged /\ ~before.grid[call.position].flagged

\* C20: while the loop of _visit_neighbors runs, its list holds no cell
\* twice and no visited cell, so that a cell is put on it and popped at
\* most once within a call of visit.
C20_UnvisitedIsASetOfUnvisitedCells ==
    pc = "visit_neighbors" =>
        /\ \A i, j \in 1 .. Len(unvisited) :
              unvisited[i] = unvisited[j] => i = j
        /\ \A i \in 1 .. Len(unvisited) : ~grid[unvisited[i]].visited

====
